---- MODULE Spec2Model ----
(***************************************************************************)
(* Model of the MINASports backend:                                        *)
(*   backend/datafetching/datafetching.py  the scheduled ingestion job     *)
(*   backend/app.py                        the Flask API and the charts    *)
(*                                                                         *)
(* Spec     the system: the S3 bucket, the ingestion job, the three HTTP   *)
(*          endpoints and the chart files under static/images.             *)
(* SpecAgg  the aggregations of create_all_visualizations (the pie chart   *)
(*          and the standings table) applied to bounded match tables.      *)
(***************************************************************************)
EXTENDS Integers, Sequences, FiniteSets, TLC

(***************************************************************************)
(* Bounds                                                                  *)
(***************************************************************************)
\* Calendar days the model runs through (dates 1..MaxDate): two Sundays, the
\* days between them and the Monday after the second.
MaxDate == 9
\* Rows of a match table in SpecAgg.
MaxMatches == 2

(***************************************************************************)
(* Program constants                                                       *)
(***************************************************************************)
\* datafetching.py:10 configures five codes; the model carries the first two.
league_codes == <<"PL", "PD">>

\* app.py:78,99 the fixed chart file names, in the order they are saved; the
\* model carries the first two of the six (all six are saved the same way, one
\* after the other, before the standings are computed).
chart_filenames == <<"piechart.png", "goal_matchday.png">>

\* app.py:73 the labels handed positionally to the pie plot.
pie_labels == <<"Home Win", "Away Win", "Draw">>

\* datafetching.py:38 schedule.every().sunday: the job is due once a week.
DaysPerWeek == 7

HTTP_OK == 200
HTTP_NOT_FOUND == 404
HTTP_SERVER_ERROR == 500

Leagues == {league_codes[i] : i \in 1..Len(league_codes)}
Dates == 1..MaxDate
NumCharts == Len(chart_filenames)

VARIABLES
    today,      \* the current calendar date (the wall clock, in days)
    store,      \* the bucket: key -> [content, LastModified], keys present only
    job,        \* the ingestion process: [state, pos] of scheduled_task's loop
    images,     \* static/images: chart index -> league whose table rendered it
    answered,   \* league -> image paths listed in a 200 response to that league
    resp,       \* the HTTP response in flight
    matches,    \* SpecAgg: the normalized match table (df)
    standings,  \* SpecAgg: the standings rows returned
    pie,        \* SpecAgg: the slices of piechart.png
    agg_pc      \* SpecAgg: "input" | "standings" | "pie"

sysvars == <<today, store, job, images, answered, resp>>
aggvars == <<matches, standings, pie, agg_pc>>
vars == <<today, store, job, images, answered, resp, matches, standings, pie, agg_pc>>

(***************************************************************************)
(* The bucket                                                              *)
(***************************************************************************)
\* What the upstream API call of fetch_and_store_league_data can produce:
\*   "raise"       requests.get or response.json() raises
\*   "no_matches"  a JSON document without a matches field (an API error body)
\*   "empty"       a JSON document whose matches array is empty
\*   "data"        a JSON document with a non-empty matches array
UpstreamResults == {"raise", "no_matches", "empty", "data"}

\* No key / no DataFrame.
None == <<>>

\* f"{league_code}_matches_{date}.json": the key is the pair (league, date);
\* the prefix f"{league_code}_matches_" selects on the first component.
\* Faulty variant: a key that leaves the date out (one key per league).
file_name_undated(league_code, date) == <<league_code, 1>>

file_name(league_code, date) == <<league_code, date>>

put_object(st, key, body, now) ==
    [k \in DOMAIN st \cup {key} |->
        IF k = key THEN [content |-> body, LastModified |-> now] ELSE st[k]]

\* Faulty variant: a listing that ignores the prefix.
list_objects_v2_any_prefix(st, league_code) == DOMAIN st

list_objects_v2(st, league_code) == {k \in DOMAIN st : k[1] = league_code}

\* The log line fetch_data_from_s3 ends with.
FetchOutcome(st, file_key) ==
    IF file_key \notin DOMAIN st THEN "NoSuchKey"
    ELSE IF st[file_key].content = "no_matches" THEN "matches_not_found"
    ELSE IF st[file_key].content = "empty" THEN "exception"
    ELSE "df"

\* The DataFrame is identified by the key it was read from; None otherwise.
fetch_data_from_s3(st, file_key) ==
    IF FetchOutcome(st, file_key) = "df" THEN file_key ELSE None

\* Faulty variant: min in place of max.
latest_file_oldest(st, files) ==
    CHOOSE k \in files : \A j \in files : st[j].LastModified >= st[k].LastModified

\* max(files, key=lambda x: x['LastModified'])['Key']
latest_file(st, files) ==
    CHOOSE k \in files : \A j \in files : st[j].LastModified <= st[k].LastModified

(***************************************************************************)
(* datafetching.py: the ingestion job                                      *)
(***************************************************************************)
\* fetch_and_store_league_data(league_code) with the upstream call producing
\* `result` and put_object succeeding or raising (put_ok).  The upstream call
\* and response.json() stand outside the try block: when they raise, nothing is
\* stored and the exception leaves the function ("raised").  A put_object that
\* raises is caught and printed.
fetch_and_store_league_data(st, league_code, date, result, put_ok) ==
    IF result = "raise" THEN [store |-> st, raised |-> TRUE]
    ELSE IF put_ok
         THEN [store |-> put_object(st, file_name(league_code, date), result, date),
               raised |-> FALSE]
         ELSE [store |-> st, raised |-> FALSE]

\* Date 1 is a Sunday.
IsSunday(date) == date % DaysPerWeek = 1

\* The scheduler fires scheduled_task (datafetching.py:38,43-45) on a Sunday and
\* the loop starts at the first league.  Nothing in the job looks at an earlier
\* run: a scheduler process started beside another one, or in place of one that
\* crashed, fires on the same Sunday as well.
RunPending ==
    /\ IsSunday(today)
    /\ job.state # "running"
    /\ job' = [state |-> "running", pos |-> 1]
    /\ UNCHANGED <<today, store, images, answered, resp>>
    /\ UNCHANGED aggvars

\* One iteration of scheduled_task's loop.  An exception out of
\* fetch_and_store_league_data is caught nowhere: it ends scheduled_task, and the
\* scheduler loop that called it, at that league ("crashed": the process is gone
\* until it is started again).  After the last league the loop ends,
\* "Data fetching completed." is printed and the scheduler waits ("idle").
scheduled_task ==
    /\ job.state = "running"
    /\ \E result \in UpstreamResults, put_ok \in BOOLEAN :
          LET r == fetch_and_store_league_data(store, league_codes[job.pos],
                                               today, result, put_ok)
          IN /\ store' = r.store
             /\ job' = IF r.raised THEN [state |-> "crashed", pos |-> 0]
                       ELSE IF job.pos = Len(league_codes)
                            THEN [state |-> "idle", pos |-> 0]
                            ELSE [job EXCEPT !.pos = job.pos + 1]
    /\ UNCHANGED <<today, images, answered, resp>>
    /\ UNCHANGED aggvars

\* Midnight.  A run is fired at 02:39 and is over before the day ends.
Tick ==
    /\ today < MaxDate
    /\ job.state # "running"
    /\ today' = today + 1
    /\ UNCHANGED <<store, job, images, answered, resp>>
    /\ UNCHANGED aggvars

(***************************************************************************)
(* app.py: the API                                                         *)
(***************************************************************************)
NoResp ==
    [ep |-> "none", league |-> "", date |-> 0, resolved |-> None,
     source |-> None, render |-> "", status |-> 0, images |-> <<>>,
     standings |-> None, error |-> "", file |-> ""]

\* create_all_visualizations(df): the charts are saved one after the other, then
\* the standings are computed.  fail_at = 0: no step raises.  fail_at = k > 0:
\* the k-th step raises (k <= NumCharts: while chart k is made, charts 1..k-1
\* being saved already; k = NumCharts + 1: in the standings step); the except
\* branch logs it and returns ([], []).
create_all_visualizations(df, fail_at) ==
    IF fail_at = 0
    THEN [saved |-> NumCharts, image_files |-> chart_filenames, standings |-> df,
          log |-> "ok"]
    ELSE [saved |-> fail_at - 1, image_files |-> <<>>, standings |-> None,
          log |-> "Error creating visualizations"]

\* prepare_frontend_data: f"/static/images/{img}" is the pair (directory, name).
prepare_frontend_data(image_files, rows) ==
    [images |-> [i \in 1..Len(image_files) |-> <<"/static/images", image_files[i]>>],
     standings |-> rows]

\* Lines 275-277 and 292-294: render, prepare, jsonify.
RenderResponse(league_code, current_date, df, fail_at) ==
    LET r == create_all_visualizations(df, fail_at)
        frontend_data == prepare_frontend_data(r.image_files, r.standings)
    IN [resp |-> [NoResp EXCEPT !.ep = "viz", !.league = league_code,
                                !.date = current_date,
                                !.resolved = df, !.source = df, !.render = r.log,
                                !.status = HTTP_OK,
                                !.images = frontend_data.images,
                                !.standings = frontend_data.standings],
        saved |-> r.saved, df |-> df]

ErrorResponse(league_code, current_date, resolved, status, error) ==
    [resp |-> [NoResp EXCEPT !.ep = "viz", !.league = league_code,
                             !.date = current_date,
                             !.resolved = resolved, !.status = status,
                             !.error = error],
     saved |-> 0, df |-> None]

\* Faulty variant: the latest file is rendered without the `if df is None` test
\* of line 290 (create_all_visualizations(None) raises in its first step).
FallbackResponse_unchecked(st, league_code, current_date, fail_at) ==
    LET files == list_objects_v2(st, league_code) IN
    IF files = {}
    THEN ErrorResponse(league_code, current_date, None, HTTP_NOT_FOUND,
                       "No files found for league in S3 bucket.")
    ELSE LET df == fetch_data_from_s3(st, latest_file(st, files))
         IN RenderResponse(league_code, current_date, df,
                           IF df = None THEN 1 ELSE fail_at)

\* Lines 279-294: the else branch of get_visualizations.
FallbackResponse(st, league_code, current_date, fail_at) ==
    LET files == list_objects_v2(st, league_code) IN
    IF files = {}
    THEN ErrorResponse(league_code, current_date, None, HTTP_NOT_FOUND,
                       "No files found for league in S3 bucket.")
    ELSE LET latest == latest_file(st, files)
             df == fetch_data_from_s3(st, latest)
         IN IF df = None
            THEN ErrorResponse(league_code, current_date, latest,
                               HTTP_SERVER_ERROR,
                               "Data format is incorrect in the latest file.")
            ELSE RenderResponse(league_code, current_date, df, fail_at)

get_visualizations_result(st, league_code, current_date, fail_at) ==
    LET file_key == file_name(league_code, current_date)
        df == fetch_data_from_s3(st, file_key)
    IN IF df # None
       THEN RenderResponse(league_code, current_date, df, fail_at)
       ELSE FallbackResponse(st, league_code, current_date, fail_at)

\* GET /api/league/<league_code>/visualizations.  current_date is read from the
\* same clock as the job's date (the server's zone taken to be UTC).
get_visualizations ==
    /\ resp.ep = "none"
    /\ \E league_code \in Leagues, current_date \in {today},
          fail_at \in 0..(NumCharts + 1) :
          LET r == get_visualizations_result(store, league_code, current_date, fail_at)
          IN /\ resp' = r.resp
             /\ images' = [i \in 1..NumCharts |->
                              IF r.df # None /\ i <= r.saved THEN r.df[1] ELSE images[i]]
             /\ answered' = IF r.resp.status = HTTP_OK /\ r.resp.images # <<>>
                            THEN [answered EXCEPT ![league_code] =
                                     {r.resp.images[i] : i \in 1..Len(r.resp.images)}]
                            ELSE answered
    /\ UNCHANGED <<today, store, job>>
    /\ UNCHANGED aggvars

\* GET /static/images/<filename>: send_from_directory, or the 404 of the except
\* branch when the file is not there.
serve_image ==
    /\ resp.ep = "none"
    /\ \E i \in 1..NumCharts :
          resp' = IF images[i] = ""
                  THEN [NoResp EXCEPT !.ep = "image", !.file = chart_filenames[i],
                                      !.status = HTTP_NOT_FOUND,
                                      !.error = "Image not found."]
                  ELSE [NoResp EXCEPT !.ep = "image", !.file = chart_filenames[i],
                                      !.status = HTTP_OK, !.league = images[i]]
    /\ UNCHANGED <<today, store, job, images, answered>>
    /\ UNCHANGED aggvars

\* GET /
health_check ==
    /\ resp.ep = "none"
    /\ resp' = [NoResp EXCEPT !.ep = "health", !.status = HTTP_OK]
    /\ UNCHANGED <<today, store, job, images, answered>>
    /\ UNCHANGED aggvars

\* The response leaves the server.
Deliver ==
    /\ resp.ep # "none"
    /\ resp' = NoResp
    /\ UNCHANGED <<today, store, job, images, answered>>
    /\ UNCHANGED aggvars

AggIdle ==
    /\ matches = <<>>
    /\ standings = <<>>
    /\ pie = <<>>
    /\ agg_pc = "input"

\* The processes have started: an empty bucket, no chart on disk.
SysInit ==
    /\ today = 1
    /\ store = <<>>
    /\ job = [state |-> "idle", pos |-> 0]
    /\ images = [i \in 1..NumCharts |-> ""]
    /\ answered = [l \in Leagues |-> {}]
    /\ resp = NoResp

Init == SysInit /\ AggIdle

Next ==
    \/ RunPending
    \/ scheduled_task
    \/ Tick
    \/ get_visualizations
    \/ serve_image
    \/ health_check
    \/ Deliver

Spec == Init /\ [][Next]_vars

(***************************************************************************)
(* app.py: the aggregations of create_all_visualizations                   *)
(***************************************************************************)
\* The teams of the match tables, in the order pandas sorts their names.
TeamOrder == <<"A", "B", "C">>
Teams == {TeamOrder[i] : i \in 1..Len(TeamOrder)}

\* score.fullTime of a match: <<home, away>>, or <<>> when both are null (the
\* match has not been played).
Scores == {<<2, 1>>, <<0, 0>>, <<>>}

\* score.winner; "null" stands for the JSON null.
Winners == {"HOME_TEAM", "AWAY_TEAM", "DRAW", "null"}

\* A row of the normalized table.
Match ==
    {m \in [home : Teams, away : Teams, fullTime : Scores, winner : Winners] :
        m.home # m.away}

\* The tables fetch_data_from_s3 hands over: at least one row.
MatchTables == UNION {[1..n -> Match] : n \in 1..MaxMatches}

RECURSIVE SeqSum(_)
SeqSum(s) == IF s = <<>> THEN 0 ELSE Head(s) + SeqSum(Tail(s))

\* Series.sum() skips NaN: a null cell adds nothing.
home_goals(m) == IF m.fullTime = <<>> THEN 0 ELSE m.fullTime[1]
away_goals(m) == IF m.fullTime = <<>> THEN 0 ELSE m.fullTime[2]

\* Lines 212-219: the derived columns.
home_points(m) == IF m.winner = "HOME_TEAM" THEN 3 ELSE IF m.winner = "DRAW" THEN 1 ELSE 0
away_points(m) == IF m.winner = "AWAY_TEAM" THEN 3 ELSE IF m.winner = "DRAW" THEN 1 ELSE 0
home_goal_difference(m) == home_goals(m) - away_goals(m)
away_goal_difference(m) == away_goals(m) - home_goals(m)

\* Lines 221-226: df.groupby('homeTeam.shortName').agg(...), a row per home team.
home_stats(df) ==
    [t \in {df[i].home : i \in 1..Len(df)} |->
        [total_points |->
            SeqSum([i \in 1..Len(df) |-> IF df[i].home = t THEN home_points(df[i]) ELSE 0]),
         total_goals_scored |->
            SeqSum([i \in 1..Len(df) |-> IF df[i].home = t THEN home_goals(df[i]) ELSE 0]),
         total_goals_conceded |->
            SeqSum([i \in 1..Len(df) |-> IF df[i].home = t THEN away_goals(df[i]) ELSE 0]),
         goal_difference |->
            SeqSum([i \in 1..Len(df) |->
                       IF df[i].home = t THEN home_goal_difference(df[i]) ELSE 0])]]

\* Lines 228-233: df.groupby('awayTeam.shortName').agg(...), a row per away team.
away_stats(df) ==
    [t \in {df[i].away : i \in 1..Len(df)} |->
        [total_points |->
            SeqSum([i \in 1..Len(df) |-> IF df[i].away = t THEN away_points(df[i]) ELSE 0]),
         total_goals_scored |->
            SeqSum([i \in 1..Len(df) |-> IF df[i].away = t THEN away_goals(df[i]) ELSE 0]),
         total_goals_conceded |->
            SeqSum([i \in 1..Len(df) |-> IF df[i].away = t THEN home_goals(df[i]) ELSE 0]),
         goal_difference |->
            SeqSum([i \in 1..Len(df) |->
                       IF df[i].away = t THEN away_goal_difference(df[i]) ELSE 0])]]

ZeroStats ==
    [total_points |-> 0, total_goals_scored |-> 0, total_goals_conceded |-> 0,
     goal_difference |-> 0]

\* Faulty variant: a frame that keeps only the labels both frames have (what
\* add() without a fill value leaves with numbers in it).
add_common_labels(a, b) ==
    [t \in DOMAIN a \cap DOMAIN b |->
        [total_points |-> a[t].total_points + b[t].total_points,
         total_goals_scored |-> a[t].total_goals_scored + b[t].total_goals_scored,
         total_goals_conceded |-> a[t].total_goals_conceded + b[t].total_goals_conceded,
         goal_difference |-> a[t].goal_difference + b[t].goal_difference]]

\* Line 235: home_stats.add(away_stats, fill_value=0): the union of the labels,
\* a frame that lacks a label counting as zeros.
add_fill_value_0(a, b) ==
    [t \in DOMAIN a \cup DOMAIN b |->
        LET x == IF t \in DOMAIN a THEN a[t] ELSE ZeroStats
            y == IF t \in DOMAIN b THEN b[t] ELSE ZeroStats
        IN [total_points |-> x.total_points + y.total_points,
            total_goals_scored |-> x.total_goals_scored + y.total_goals_scored,
            total_goals_conceded |-> x.total_goals_conceded + y.total_goals_conceded,
            goal_difference |-> x.goal_difference + y.goal_difference]]

\* Faulty variant: the sort by total_points alone.
SortsBefore_points_only(a, b) == a.total_points > b.total_points

\* Line 236: by=['total_points', 'goal_difference'], ascending=[False, False].
SortsBefore(a, b) ==
    \/ a.total_points > b.total_points
    \/ a.total_points = b.total_points /\ a.goal_difference > b.goal_difference

\* The sort is stable: a row goes in front of the first row it sorts before.
RECURSIVE InsertRow(_, _)
InsertRow(rows, r) ==
    IF rows = <<>> THEN <<r>>
    ELSE IF SortsBefore(r, Head(rows)) THEN <<r>> \o rows
    ELSE <<Head(rows)>> \o InsertRow(Tail(rows), r)

\* Lines 236-245: sort_values, reset_index, the rename to 'team', to_dict.  The
\* frame comes in label order.
RECURSIVE sort_values(_, _)
sort_values(team_stats, i) ==
    IF i > Len(TeamOrder) THEN <<>>
    ELSE LET t == TeamOrder[i]
             rest == sort_values(team_stats, i + 1)
         IN IF t \in DOMAIN team_stats
            THEN LET r == [team |-> t,
                           total_points |-> team_stats[t].total_points,
                           total_goals_scored |-> team_stats[t].total_goals_scored,
                           total_goals_conceded |-> team_stats[t].total_goals_conceded,
                           goal_difference |-> team_stats[t].goal_difference]
                 IN InsertRow(rest, r)
            ELSE rest

\* Lines 210-248: the standings create_all_visualizations returns.
league_standings(df) == sort_values(add_fill_value_0(home_stats(df), away_stats(df)), 1)

\* Line 65: df['score.winner'].value_counts(): the count of each value that
\* occurs (null is dropped), greatest count first; equal counts in either order.
WinnerCount(df, w) == Cardinality({i \in 1..Len(df) : df[i].winner = w})

value_counts(df) ==
    LET present == {w \in Winners \ {"null"} : WinnerCount(df, w) > 0}
        n == Cardinality(present)
    IN {s \in [1..n -> present] :
           /\ \A i, j \in 1..n : i # j => s[i] # s[j]
           /\ \A i \in 1..n : i < n => WinnerCount(df, s[i]) >= WinnerCount(df, s[i + 1])}

\* Lines 69-75: the plot pairs the labels with the counts by position,
\* zip(labels, y), whatever the value a count belongs to.
pie_slices(df, match_outcomes) ==
    [i \in 1..Len(match_outcomes) |->
        [label |-> pie_labels[i],
         value |-> WinnerCount(df, match_outcomes[i]),
         winner |-> match_outcomes[i]]]

\* The standings step of create_all_visualizations on a table.
ComputeStandings ==
    /\ agg_pc = "input"
    /\ standings' = league_standings(matches)
    /\ agg_pc' = "standings"
    /\ UNCHANGED <<matches, pie>>
    /\ UNCHANGED sysvars

\* The pie chart step of create_all_visualizations on a table.
RenderPie ==
    /\ agg_pc = "input"
    /\ \E match_outcomes \in value_counts(matches) :
          pie' = pie_slices(matches, match_outcomes)
    /\ agg_pc' = "pie"
    /\ UNCHANGED <<matches, standings>>
    /\ UNCHANGED sysvars

InitAgg ==
    /\ SysInit
    /\ matches \in MatchTables
    /\ standings = <<>>
    /\ pie = <<>>
    /\ agg_pc = "input"

NextAgg ==
    \/ ComputeStandings
    \/ RenderPie

SpecAgg == InitAgg /\ [][NextAgg]_vars

(***************************************************************************)
(* Claims about the system                                                 *)
(***************************************************************************)
\* A step in which get_visualizations answers.
VizStep == resp.ep = "none" /\ resp'.ep = "viz"

\* The blobs of a league: the keys under its prefix.
BlobsOf(league) == {k \in DOMAIN store : k[1] = league}

\* C1 as stated: when today's key does not exist and the league has blobs, the
\* request resolves to a blob of the league with the greatest LastModified, is
\* never answered 404, and is answered 200 from that blob whenever the blob
\* contains a matches array.
C1_Original ==
    [][VizStep =>
        LET L == resp'.league
            k == resp'.resolved
        IN (<<L, resp'.date>> \notin DOMAIN store /\ BlobsOf(L) # {}) =>
              /\ k \in BlobsOf(L)
              /\ \A j \in BlobsOf(L) : store[j].LastModified <= store[k].LastModified
              /\ resp'.status # HTTP_NOT_FOUND
              /\ store[k].content \in {"empty", "data"} =>
                    (resp'.status = HTTP_OK /\ resp'.source = k)]_vars

\* C1 as amended: the same, the 200 answer from the blob being promised when
\* its matches array is non-empty (a table can be built from it).
C1_ResolvesToLatest ==
    [][VizStep =>
        LET L == resp'.league
            k == resp'.resolved
        IN (<<L, resp'.date>> \notin DOMAIN store /\ BlobsOf(L) # {}) =>
              /\ k \in BlobsOf(L)
              /\ \A j \in BlobsOf(L) : store[j].LastModified <= store[k].LastModified
              /\ resp'.status # HTTP_NOT_FOUND
              /\ store[k].content = "data" =>
                    (resp'.status = HTTP_OK /\ resp'.source = k)]_vars

\* C1 witness: a request on a day without a blob of its own was answered 200 from
\* the younger of two older blobs of the league.
C1_Witness ==
    /\ resp.ep = "viz"
    /\ resp.status = HTTP_OK
    /\ <<resp.league, resp.date>> \notin DOMAIN store
    /\ resp.source \in DOMAIN store
    /\ \E j \in BlobsOf(resp.league) :
          store[j].LastModified < store[resp.source].LastModified

\* C2: a request for a league without any blob under its prefix is answered 404
\* with an error message.
C2_NoBlobsIs404 ==
    [][VizStep =>
        (BlobsOf(resp'.league) = {} =>
            resp'.status = HTTP_NOT_FOUND /\ resp'.error # "")]_vars

\* C2 witness: a 404 answer for a league that has no blob, while the other
\* league has one.
C2_Witness ==
    /\ resp.ep = "viz"
    /\ resp.status = HTTP_NOT_FOUND
    /\ BlobsOf(resp.league) = {}
    /\ DOMAIN store # {}

\* C3 as stated: when a step of create_all_visualizations raises, the endpoint
\* answers 500 with an error body.
C3_Original ==
    (resp.ep = "viz" /\ resp.render = "Error creating visualizations") =>
        (resp.status = HTTP_SERVER_ERROR /\ resp.error # "")

C5_Original ==
    [][job.state = "running" =>
          \/ job' = job
          \/ job'.state = "running" /\ job'.pos = job.pos + 1
          \/ job'.state = "idle" /\ job.pos = Len(league_codes)]_vars

\* C6 as stated: the content under a key never changes and no key is removed.
C6_Original ==
    [][\A k \in DOMAIN store : k \in DOMAIN store' /\ store'[k] = store[k]]_vars

\* C6 as amended: no key is removed, and the content under a key changes only
\* when a run of the ingestion job handles the key's league on the key's date;
\* no API request and no run on a later date changes it.
C6_OverwrittenOnlySameDay ==
    [][\A k \in DOMAIN store :
          /\ k \in DOMAIN store'
          /\ store'[k] # store[k] =>
                /\ job.state = "running"
                /\ k = <<league_codes[job.pos], today>>
                /\ resp' = resp]_vars

\* C6 witness: a blob of an earlier date is there after the job has stored a
\* blob on a later date and an API request has been answered from the bucket.
C6_Witness ==
    /\ resp.ep = "viz"
    /\ resp.status = HTTP_OK
    /\ \E k \in DOMAIN store : k[2] < today /\ <<k[1], today>> \in DOMAIN store

\* C10 as stated: an image served under a path that a 200 response to league L
\* listed was rendered from a snapshot of L.
C10_Original ==
    \A L \in Leagues :
        (resp.ep = "image" /\ resp.status = HTTP_OK
            /\ <<"/static/images", resp.file>> \in answered[L]) => resp.league = L

(***************************************************************************)
(* Claims about the aggregations                                           *)
(***************************************************************************)
RECURSIVE SumOver(_, _)
SumOver(f, S) ==
    IF S = {} THEN 0
    ELSE LET x == CHOOSE y \in S : TRUE IN f[x] + SumOver(f, S \ {x})

\* The teams that appear as home or away in a table.
Appearing(df) == {df[i].home : i \in 1..Len(df)} \cup {df[i].away : i \in 1..Len(df)}

\* C7: the standings hold exactly one row per team that appears in the table;
\* the row's points are 3 per match won and 1 per match drawn, at home or away,
\* its goals scored and conceded are the sums over the team's home and away
\* matches, and its goal difference is scored minus conceded.
C7_OneRowPerTeam ==
    agg_pc = "standings" =>
        LET idx == 1..Len(matches)
            hg == [i \in idx |-> home_goals(matches[i])]
            ag == [i \in idx |-> away_goals(matches[i])]
        IN /\ Len(standings) = Cardinality(Appearing(matches))
           /\ {standings[r].team : r \in DOMAIN standings} = Appearing(matches)
           /\ \A r \in DOMAIN standings :
                 LET t == standings[r].team
                     H == {i \in idx : matches[i].home = t}
                     A == {i \in idx : matches[i].away = t}
                 IN /\ standings[r].total_points =
                          3 * Cardinality({i \in H : matches[i].winner = "HOME_TEAM"})
                        + 3 * Cardinality({i \in A : matches[i].winner = "AWAY_TEAM"})
                        + Cardinality({i \in H \cup A : matches[i].winner = "DRAW"})
                    /\ standings[r].total_goals_scored = SumOver(hg, H) + SumOver(ag, A)
                    /\ standings[r].total_goals_conceded = SumOver(ag, H) + SumOver(hg, A)
                    /\ standings[r].goal_difference =
                          standings[r].total_goals_scored - standings[r].total_goals_conceded

\* C7 witness: (A vs B, 2-1, HOME_TEAM) and (B vs A, 0-0, DRAW) give
\* A: 4 points, 2 scored, 1 conceded, +1 and B: 1 point, 1 scored, 2 conceded, -1.
C7_Witness ==
    /\ agg_pc = "standings"
    /\ matches = <<[home |-> "A", away |-> "B", fullTime |-> <<2, 1>>, winner |-> "HOME_TEAM"],
                   [home |-> "B", away |-> "A", fullTime |-> <<0, 0>>, winner |-> "DRAW"]>>
    /\ standings = <<[team |-> "A", total_points |-> 4, total_goals_scored |-> 2,
                      total_goals_conceded |-> 1, goal_difference |-> 1],
                     [team |-> "B", total_points |-> 1, total_goals_scored |-> 1,
                      total_goals_conceded |-> 2, goal_difference |-> -1]>>

\* C8: of two adjacent standings rows the first has more points, or the same
\* points and a goal difference that is not smaller.
C8_StandingsSorted ==
    agg_pc = "standings" =>
        \A r \in 1..(Len(standings) - 1) :
            \/ standings[r].total_points > standings[r + 1].total_points
            \/ /\ standings[r].total_points = standings[r + 1].total_points
               /\ standings[r].goal_difference >= standings[r + 1].goal_difference

\* C8 witness: three rows, B in front of A on goal difference alone.
C8_Witness ==
    /\ agg_pc = "standings"
    /\ Len(standings) = 3
    /\ \E r \in 1..2 :
          /\ standings[r].team = "B"
          /\ standings[r + 1].team = "A"
          /\ standings[r].total_points = standings[r + 1].total_points
          /\ standings[r].goal_difference > standings[r + 1].goal_difference

\* C9 as stated: the slice labelled 'Home Win' carries the number of matches won
\* by the home team, 'Away Win' the number won by the away team, 'Draw' the
\* number drawn.
C9_Original ==
    agg_pc = "pie" =>
        \A i \in DOMAIN pie :
            /\ pie[i].label = "Home Win" => pie[i].value = WinnerCount(matches, "HOME_TEAM")
            /\ pie[i].label = "Away Win" => pie[i].value = WinnerCount(matches, "AWAY_TEAM")
            /\ pie[i].label = "Draw" => pie[i].value = WinnerCount(matches, "DRAW")

====
